---- MODULE Spec2Model ----
(***************************************************************************)
(* State-machine model of the platformer's interaction core: keyboard      *)
(* state (InputManager), the Player, the OozeObstacle with its chat        *)
(* bubble, the QuestBoard panel with its tweens, the BackgroundManager's   *)
(* parallax layers, and the Game scene's per-frame update.  Positions are  *)
(* kept in sub-pixel units (SubPx units per pixel) so that                 *)
(* Player.preventPixelBlur's rounding is a real step; texture offsets are  *)
(* kept in units of 1/(SpeedUnit * SubPx) pixel.                           *)
(***************************************************************************)
EXTENDS Integers, Sequences, FiniteSets, TLC

(* ------------------------------ bounds -------------------------------- *)
\* sub-pixel units per pixel of the physics positions
SubPx == 4
\* at most this many fade-out tweens are in flight on one panel, and at most
\* this many close-callback invocations are counted per open cycle
MaxTweens == 2
\* at most this many fade-in tweens are in flight on one panel
MaxFadeIns == 1
\* at most this many frames (Game.update / updateParallax calls) run, which
\* bounds the drift of the back-most background layer
MaxFrames == 3
MaxGames == 3
MaxDestroys == 2

(* ------------------------- program constants -------------------------- *)
STARTING_X == 300
STARTING_Y == 800
PLAYER_SCALE == 3
WALK_SPEED == 200
RUN_SPEED == 300
JUMP_VELOCITY == -500
GROUND_OFFSET_FROM_BOTTOM == 100
OOZE_X_POSITION == 1200
OOZE_Y_OFFSET == 50
INTERACTION_DISTANCE == 100
GRAVITY_Y == 800
GAME_HEIGHT == 1080
PLAYER_FRAME_HEIGHT == 32
GAME_WIDTH == 1920
WORLD_SIZE == 1000000
\* BACKGROUND_CONFIG.SCROLL_SPEEDS, in tenths (1/SpeedUnit)
BACK_SKY == 1
SKY_GLOW == 1
CLOUDS == 1
MIDGROUND_ROCKS == 2
FOREGROUND_ROCKS == 3
GROUND_LAYER == 10
\* the scroll speeds are multiples of 1/SpeedUnit
SpeedUnit == 10

\* top of the ground platform (Game.createGroundPlatform)
groundY == GAME_HEIGHT - GROUND_OFFSET_FROM_BOTTOM
\* the ooze sprite's anchor (OozeObstacle constructor)
oozeY == groundY - OOZE_Y_OFFSET
\* y of the centre of a player sprite standing on the ground
restY == groundY - (PLAYER_FRAME_HEIGHT * PLAYER_SCALE) \div 2

(* ------------------------------ domains ------------------------------- *)
\* keys polled by the InputManager
MoveKeys == {"left", "right", "up", "space", "shift"}
\* the keys the player of the game-flow specification uses
GameKeys == {"left", "right", "space"}

\* sprite x positions the physics step can produce, in sub-pixel units:
\* the start, exactly the radius left of the ooze, a fraction of a pixel
\* nearer, and one pixel nearer
PlayerXs ==
    { STARTING_X * SubPx,
      (OOZE_X_POSITION - INTERACTION_DISTANCE) * SubPx,
      (OOZE_X_POSITION - INTERACTION_DISTANCE) * SubPx + 1,
      (OOZE_X_POSITION - INTERACTION_DISTANCE + 1) * SubPx }

\* sprite y positions while airborne: the start height and the ooze's height
AirYs == { STARTING_Y * SubPx, oozeY * SubPx }

\* values of the vertical velocity: rising after a jump, at rest, falling
VelocityYs == { JUMP_VELOCITY, 0, GRAVITY_Y }

Anims == {"none", "idle", "run", "jump"}

VARIABLES
    interactKey,        \* the E key: [isDown, justDown], and polled: a frame
                        \* has run since the key went down
    player,             \* Player: sprite position/velocity, canMove, animation
    ooze,               \* OozeObstacle: chat bubble flag and objects, questBoard
    boards,             \* every QuestBoard constructed, in construction order
    isPlayerNearOoze,   \* Game.isPlayerNearOoze
    closeCallbackCalls, \* invocations of the close callback since the last open
    lastCall,           \* the last method called directly: [op, keys], and
                        \* how far a disable/enable round trip has got
    frame,              \* the last Game.update: the showChatBubble and
                        \* hideChatBubble calls of its proximity check and
                        \* its onPlayerInteract calls
    scene,              \* the active scene: "Game" or "MainMenu"
    escKey,             \* the ESC key: [isDown, listener ('down' handler)]
    cameraScrollX,      \* cameras.main.scrollX, in sub-pixel units
    background,         \* BackgroundManager: display order, texture offsets
    gameInstance,       \* main.ts gameInstance: 0 is null, else the number
                        \* of the Phaser.Game it references
    games,              \* every Phaser.Game constructed, in construction
                        \* order: "running", "pendingDestroy" or "destroyed"
    resources,          \* the game objects of the Game scene: "none" (the
                        \* field is undefined), "live" or "destroyed"
    calls               \* the calls made from outside: destroy() calls per
                        \* component, the value StartGame returned last

lifeVars == <<gameInstance, games, resources, calls>>

vars == <<interactKey, player, ooze, boards, isPlayerNearOoze,
          closeCallbackCalls, lastCall, frame, scene, escKey, cameraScrollX,
          background, lifeVars>>

(* --------------------------- InputManager ----------------------------- *)
isMovingLeft(keys) == "left" \in keys
isMovingRight(keys) == "right" \in keys
isJumping(keys) == "up" \in keys \/ "space" \in keys
isRunning(keys) == "shift" \in keys

\* mutant: right is checked first
getHorizontalDirectionRightFirst(keys) ==
    IF isMovingRight(keys) THEN 1
    ELSE IF isMovingLeft(keys) THEN -1
    ELSE 0

getHorizontalDirection(keys) ==
    IF isMovingLeft(keys) THEN -1
    ELSE IF isMovingRight(keys) THEN 1
    ELSE 0

(* ------------------------------- Player ------------------------------- *)
\* Player after its constructor (createPlayer): the idle animation is only
\* started by a delayed call
NewPlayer ==
    [ x |-> STARTING_X * SubPx, y |-> STARTING_Y * SubPx,
      velocityX |-> 0, velocityY |-> 0, touchingDown |-> FALSE,
      canMove |-> TRUE, anim |-> "none", idleTimer |-> TRUE ]

jump(p) == [p EXCEPT !.velocityY = JUMP_VELOCITY, !.anim = "jump"]

\* mutant: the early return for a frozen player is missing
handleMovementNoGuard(p, keys) ==
    LET isOnGround == p.touchingDown
        direction == getHorizontalDirection(keys)
        speed == IF isRunning(keys) THEN RUN_SPEED ELSE WALK_SPEED
        moved ==
           IF direction # 0
           THEN [p EXCEPT !.velocityX = direction * speed,
                          !.anim = IF isOnGround THEN "run" ELSE @]
           ELSE [p EXCEPT !.velocityX = 0,
                          !.anim = IF isOnGround THEN "idle" ELSE @]
    IN IF isJumping(keys) /\ isOnGround THEN jump(moved) ELSE moved

\* mutant: a frozen player still jumps (the early return comes after the
\* jump check)
handleMovementFrozenJump(p, keys) ==
    IF ~p.canMove
    THEN IF isJumping(keys) /\ p.touchingDown
         THEN jump([p EXCEPT !.velocityX = 0])
         ELSE [p EXCEPT !.velocityX = 0]
    ELSE handleMovementNoGuard(p, keys)

\* mutant: update() lifts the freeze by itself
handleMovementUnfreezes(p, keys) ==
    IF ~p.canMove
    THEN [p EXCEPT !.velocityX = 0, !.canMove = TRUE]
    ELSE handleMovementNoGuard(p, keys)

\* mutant: no air control, the horizontal velocity is only set on the ground
handleMovementNoAirControl(p, keys) ==
    IF ~p.canMove \/ p.touchingDown
    THEN handleMovementFrozenJump(p, keys)
    ELSE p

\* mutant: the jump check ignores the ground contact
handleMovementAirJump(p, keys) ==
    IF ~p.canMove
    THEN [p EXCEPT !.velocityX = 0]
    ELSE IF isJumping(keys)
         THEN jump(handleMovementNoGuard(p, keys))
         ELSE handleMovementNoGuard(p, keys)

\* mutant: the animation is chosen in the air as on the ground
handleMovementAirAnim(p, keys) ==
    IF ~p.canMove
    THEN [p EXCEPT !.velocityX = 0]
    ELSE LET direction == getHorizontalDirection(keys)
             speed == IF isRunning(keys) THEN RUN_SPEED ELSE WALK_SPEED
             moved ==
                IF direction # 0
                THEN [p EXCEPT !.velocityX = direction * speed, !.anim = "run"]
                ELSE [p EXCEPT !.velocityX = 0, !.anim = "idle"]
         IN IF isJumping(keys) /\ p.touchingDown THEN jump(moved) ELSE moved

handleMovement(p, keys) ==
    IF ~p.canMove
    THEN [p EXCEPT !.velocityX = 0]
    ELSE LET isOnGround == p.touchingDown
             direction == getHorizontalDirection(keys)
             speed == IF isRunning(keys) THEN RUN_SPEED ELSE WALK_SPEED
             moved ==
                IF direction # 0
                THEN [p EXCEPT !.velocityX = direction * speed,
                               !.anim = IF isOnGround THEN "run" ELSE @]
                ELSE [p EXCEPT !.velocityX = 0,
                               !.anim = IF isOnGround THEN "idle" ELSE @]
         IN IF isJumping(keys) /\ isOnGround THEN jump(moved) ELSE moved

\* Math.round on a sub-pixel coordinate: nearest whole pixel, halves up
MathRound(v) == ((v + SubPx \div 2) \div SubPx) * SubPx

preventPixelBlur(p) == [p EXCEPT !.x = MathRound(@), !.y = MathRound(@)]

PlayerUpdate(p, keys) == preventPixelBlur(handleMovement(p, keys))

getPosition(p) == [x |-> p.x, y |-> p.y]

\* mutant: enableMovement forgets to set the flag
enableMovementNoop(p) == p

enableMovement(p) == [p EXCEPT !.canMove = TRUE]

\* mutant: disableMovement only stops the sprite
disableMovementVelocityOnly(p) == [p EXCEPT !.velocityX = 0]

disableMovement(p) == [p EXCEPT !.canMove = FALSE, !.velocityX = 0]

(* ----------------------------- QuestBoard ----------------------------- *)
\* QuestBoard after its constructor: container hidden, no callback; a fresh
\* container has alpha 1 and scale 1 (in percent) and is not destroyed
NewBoard ==
    [ isVisible |-> FALSE, containerVisible |-> FALSE,
      onCloseCallback |-> "none", alpha |-> 100, scale |-> 100,
      fadeIns |-> 0, fadeOuts |-> 0, destroyed |-> FALSE ]

\* mutant: the single-open guard is missing
showQuestBoardUnguarded(b, onCloseCallback) ==
    [b EXCEPT !.onCloseCallback = onCloseCallback,
              !.containerVisible = TRUE,
              !.isVisible = TRUE,
              !.alpha = 0, !.scale = 80,
              !.fadeIns = @ + 1]

showQuestBoard(b, onCloseCallback) ==
    IF ~b.isVisible
    THEN [b EXCEPT !.onCloseCallback = onCloseCallback,
                   !.containerVisible = TRUE,
                   !.isVisible = TRUE,
                   !.alpha = 0, !.scale = 80,
                   !.fadeIns = @ + 1]
    ELSE b

hideQuestBoard(b) ==
    IF b.isVisible THEN [b EXCEPT !.fadeOuts = @ + 1] ELSE b

(* -------------------------- BackgroundManager -------------------------- *)
\* the tiling layers whose texture offset follows the camera, with their
\* scroll speeds
CameraLayers ==
    {"skyGlow", "clouds", "midgroundRocks", "foregroundRocks", "groundLayer"}

ScrollSpeed(layer) ==
    CASE layer = "backSky" -> BACK_SKY
      [] layer = "skyGlow" -> SKY_GLOW
      [] layer = "clouds" -> CLOUDS
      [] layer = "midgroundRocks" -> MIDGROUND_ROCKS
      [] layer = "foregroundRocks" -> FOREGROUND_ROCKS
      [] layer = "groundLayer" -> GROUND_LAYER

\* createBackground: the layers in the order they are added to the scene
\* (back to front); a new tile sprite has tilePositionX 0, the planet image
\* stands at the middle of the bottom edge
createBackground ==
    [ displayList |-> << "backSky", "midgroundRocks", "skyGlow", "clouds",
                         "planet", "foregroundRocks", "groundLayer" >>,
      tilePositionX |-> [l \in CameraLayers \cup {"backSky"} |-> 0],
      planet |-> [x |-> (GAME_WIDTH \div 2) * SubPx, y |-> GAME_HEIGHT * SubPx] ]

\* mutant: the camera-driven layers accumulate like the drift layer
updateParallaxAccumulating(bg, scrollX) ==
    [bg EXCEPT !.tilePositionX =
        [l \in DOMAIN @ |->
            IF l = "backSky" THEN @[l] + BACK_SKY * SubPx
            ELSE @[l] + scrollX * ScrollSpeed(l)]]

\* mutant: the back-most layer follows the camera like the others
updateParallaxNoDrift(bg, scrollX) ==
    [bg EXCEPT !.tilePositionX =
        [l \in DOMAIN @ |-> scrollX * ScrollSpeed(l)]]

\* updateParallax with cameras.main.scrollX = scrollX (sub-pixel units);
\* offsets are in units of 1/(SpeedUnit * SubPx) pixel
updateParallax(bg, scrollX) ==
    [bg EXCEPT !.tilePositionX =
        [l \in DOMAIN @ |->
            IF l = "backSky" THEN @[l] + BACK_SKY * SubPx
            ELSE scrollX * ScrollSpeed(l)]]

(* ------------------------------- camera -------------------------------- *)
\* Math.floor on a sub-pixel coordinate
MathFloor(v) == (v \div SubPx) * SubPx

\* Camera.clampX for the bounds Game.setupGameWorld sets
clampX(sx) ==
    LET lo == (0 - WORLD_SIZE \div 2) * SubPx
        hi == (WORLD_SIZE \div 2 - GAME_WIDTH) * SubPx
    IN IF sx < lo THEN lo ELSE IF sx > hi THEN hi ELSE sx

\* the scroll a camera following a sprite at x with lerp 1 can take at
\* render time: x minus half the view, as it is or brought to a whole pixel
\* (roundPixels), then clamped to the bounds
CameraFollow(x) ==
    LET sx == x - (GAME_WIDTH \div 2) * SubPx
    IN { clampX(sx), clampX(MathFloor(sx)), clampX(MathRound(sx)) }

(* ---------------------- BaseObstacle / OozeObstacle -------------------- *)
\* planar Euclidean distance < interactionDistance, compared on squares
\* (all coordinates are integers in sub-pixel units)
\* mutant: the comparison is not strict
isPlayerNearbyInclusive(playerPosition) ==
    LET dx == playerPosition.x - OOZE_X_POSITION * SubPx
        dy == playerPosition.y - oozeY * SubPx
        r == INTERACTION_DISTANCE * SubPx
    IN dx * dx + dy * dy <= r * r

isPlayerNearby(playerPosition) ==
    LET dx == playerPosition.x - OOZE_X_POSITION * SubPx
        dy == playerPosition.y - oozeY * SubPx
        r == INTERACTION_DISTANCE * SubPx
    IN dx * dx + dy * dy < r * r

showChatBubble(o) ==
    IF ~o.chatBubbleVisible
    THEN [o EXCEPT !.chatBubbleImage = TRUE, !.chatBubbleText = TRUE,
                   !.chatBubbleVisible = TRUE]
    ELSE o

hideChatBubble(o) ==
    IF o.chatBubbleVisible
    THEN [o EXCEPT !.chatBubbleImage = FALSE, !.chatBubbleText = FALSE,
                   !.chatBubbleVisible = FALSE]
    ELSE o

\* creates a QuestBoard unless the obstacle already references one;
\* questBoard = 0 stands for null/undefined, otherwise an index into boards
initializeQuestBoard(ob) ==
    IF ob.ooze.questBoard = 0
    THEN [ ooze |-> [ob.ooze EXCEPT !.questBoard = Len(ob.boards) + 1],
           boards |-> Append(ob.boards, NewBoard) ]
    ELSE ob

\* the object while BaseObstacle's constructor runs: the subclass fields have
\* not been initialised yet (undefined is falsy, questBoard undefined is 0);
\* createChatBubble makes the image and the text, which are visible by default
createChatBubble(o) ==
    hideChatBubble([o EXCEPT !.chatBubbleImage = TRUE, !.chatBubbleText = TRUE])

setupObstacle(ob) ==
    initializeQuestBoard([ob EXCEPT !.ooze = createChatBubble(@)])

\* new OozeObstacle(scene, player): super(...) runs setupObstacle, after which
\* the field initialisers of lines 14-15 run
NewOozeObstacle ==
    LET raw == [ ooze |-> [ chatBubbleVisible |-> FALSE,
                            chatBubbleImage |-> FALSE,
                            chatBubbleText |-> FALSE,
                            questBoard |-> 0 ],
                 boards |-> << >> ]
        built == setupObstacle(raw)
    IN [built EXCEPT !.ooze.chatBubbleVisible = FALSE, !.ooze.questBoard = 0]

\* world = [player, ooze, boards, calls]; the close callback handed to the
\* panel is the closure that re-enables the player's movement
onPlayerInteract(w) ==
    LET o1 == hideChatBubble(w.ooze)
        p1 == disableMovement(w.player)
        ob == initializeQuestBoard([ooze |-> o1, boards |-> w.boards])
        qb == ob.ooze.questBoard
        opened == showQuestBoard(ob.boards[qb], "enableMovement")
    IN [ player |-> p1,
         ooze |-> ob.ooze,
         boards |-> [ob.boards EXCEPT ![qb] = opened],
         calls |-> IF ob.boards[qb].isVisible THEN w.calls ELSE 0 ]

(* -------------------------------- Game -------------------------------- *)
\* mutant: the interaction is not tied to the proximity measured in the frame
checkObstacleInteractionsAnywhere(w, near0, key) ==
    LET isNearOoze == isPlayerNearby(getPosition(w.player))
        o1 == IF isNearOoze # near0
              THEN IF isNearOoze THEN showChatBubble(w.ooze)
                                 ELSE hideChatBubble(w.ooze)
              ELSE w.ooze
        w1 == [w EXCEPT !.ooze = o1]
        pressed == key.justDown
    IN [ world |-> IF pressed THEN onPlayerInteract(w1) ELSE w1,
         near |-> isNearOoze,
         key |-> [key EXCEPT !.justDown = FALSE],
         shows |-> IF isNearOoze # near0 /\ isNearOoze THEN 1 ELSE 0,
         hides |-> IF isNearOoze # near0 /\ ~isNearOoze THEN 1 ELSE 0,
         interacts |-> IF pressed THEN 1 ELSE 0 ]

\* mutant: the proximity check is not debounced, the bubble is shown or
\* hidden in every frame
checkObstacleInteractionsEveryFrame(w, near0, key) ==
    LET isNearOoze == isPlayerNearby(getPosition(w.player))
        o1 == IF isNearOoze THEN showChatBubble(w.ooze)
                            ELSE hideChatBubble(w.ooze)
        w1 == [w EXCEPT !.ooze = o1]
        pressed == isNearOoze /\ key.justDown
    IN [ world |-> IF pressed THEN onPlayerInteract(w1) ELSE w1,
         near |-> isNearOoze,
         key |-> IF isNearOoze THEN [key EXCEPT !.justDown = FALSE] ELSE key,
         shows |-> IF isNearOoze THEN 1 ELSE 0,
         hides |-> IF isNearOoze THEN 0 ELSE 1,
         interacts |-> IF pressed THEN 1 ELSE 0 ]

\* Game.checkObstacleInteractions on world w with proximity flag near0 and
\* the E key's state key: returns the new world, flag and key
checkObstacleInteractions(w, near0, key) ==
    LET isNearOoze == isPlayerNearby(getPosition(w.player))
        o1 == IF isNearOoze # near0
              THEN IF isNearOoze THEN showChatBubble(w.ooze)
                                 ELSE hideChatBubble(w.ooze)
              ELSE w.ooze
        w1 == [w EXCEPT !.ooze = o1]
        \* Phaser.Input.Keyboard.JustDown is only evaluated when isNearOoze
        pressed == isNearOoze /\ key.justDown
    IN [ world |-> IF pressed THEN onPlayerInteract(w1) ELSE w1,
         near |-> isNearOoze,
         key |-> IF isNearOoze THEN [key EXCEPT !.justDown = FALSE] ELSE key,
         shows |-> IF isNearOoze # near0 /\ isNearOoze THEN 1 ELSE 0,
         hides |-> IF isNearOoze # near0 /\ ~isNearOoze THEN 1 ELSE 0,
         interacts |-> IF pressed THEN 1 ELSE 0 ]

World == [player |-> player, ooze |-> ooze, boards |-> boards,
          calls |-> closeCallbackCalls]

\* mutant: the proximity check runs before the player's update
GameUpdateCheckFirst(w, near0, key, keys) ==
    LET r == checkObstacleInteractions(w, near0, key)
    IN [r EXCEPT !.world.player = PlayerUpdate(@, keys)]

GameUpdate(w, near0, key, keys) ==
    checkObstacleInteractions([w EXCEPT !.player = PlayerUpdate(@, keys)],
                              near0, key)

(* ------------------------------ teardown ------------------------------ *)
BackgroundObjects ==
    {"backSky", "skyGlow", "clouds", "planet", "midgroundRocks",
     "foregroundRocks", "groundLayer"}

\* the game objects create() adds to the scene, panel containers apart
SceneObjects ==
    BackgroundObjects \cup {"playerSprite", "oozeSprite", "chatBubbleImage",
                            "chatBubbleText", "groundPlatform", "questBlocker"}

Components ==
    {"BackgroundManager", "InputManager", "Player", "OozeObstacle",
     "QuestBoard", "Game"}

\* the scene's display list in the order create() fills it: createGameSystems
\* (player sprite), createGameElements (layers, obstacle sprite, bubble,
\* the panel built in setupObstacle), setupPhysicsCollisions (ground,
\* blocker), and the panel built by the first interaction
DisplayOrder ==
    <<"playerSprite">> \o createBackground.displayList
      \o <<"oozeSprite", "chatBubbleImage", "chatBubbleText", "container1",
           "groundPlatform", "questBlocker", "container2">>

\* GameObject.destroy(): the engine returns at once for an object that has
\* no scene any more, which is the case after its first destroy()
gameObjectDestroy(st) == IF st = "live" THEN "destroyed" ELSE st

\* x.destroy(): a method call on undefined throws
destroyCall(st) == IF st = "none" THEN "TypeError" ELSE gameObjectDestroy(st)

\* x?.destroy()
optionalDestroy(st) == IF st = "none" THEN st ELSE destroyCall(st)

BackgroundManagerDestroy(res) ==
    [r \in DOMAIN res |->
       IF r \in BackgroundObjects THEN optionalDestroy(res[r]) ELSE res[r]]

\* escKey?.off('down')
InputManagerDestroy(k) == [k EXCEPT !.listener = FALSE]

PlayerDestroy(res) == [res EXCEPT !["playerSprite"] = optionalDestroy(@)]

\* container?.destroy(); the constructor always makes the container
QuestBoardDestroy(b) == [b EXCEPT !.destroyed = TRUE]

BaseObstacleDestroy(res) == [res EXCEPT !["oozeSprite"] = optionalDestroy(@)]

\* w = [resources, ooze, boards, escKey]
OozeObstacleDestroy(w) ==
    [w EXCEPT
       !.resources =
          BaseObstacleDestroy(
             [@ EXCEPT !["chatBubbleImage"] = optionalDestroy(@),
                       !["chatBubbleText"] = optionalDestroy(@)]),
       !.boards =
          IF w.ooze.questBoard # 0
          THEN [@ EXCEPT ![w.ooze.questBoard] = QuestBoardDestroy(@)]
          ELSE @]

\* the fields of the Game scene that createGameSystems and
\* createGameElements assign
hasSystems(res) == res["playerSprite"] # "none"
hasObstacle(res) == res["oozeSprite"] # "none"

isInDisplayList(w, n) ==
    IF n = "container1" THEN 1 \in DOMAIN w.boards /\ ~w.boards[1].destroyed
    ELSE IF n = "container2" THEN 2 \in DOMAIN w.boards /\ ~w.boards[2].destroyed
    ELSE w.resources[n] = "live"

children(w) ==
    LET inList(n) == isInDisplayList(w, n)
    IN SelectSeq(DisplayOrder, inList)

\* children.each(callback) with a callback that removes the child it is
\* given from the list: an iteration over a copy of the list visits every
\* child, an iteration by index over the list itself visits every other one
\* (positions 1, 3, 5, ... of the list as it was)
eachVisits(list, byIndex) ==
    IF byIndex THEN {list[i] : i \in {j \in 1..Len(list) : j % 2 = 1}}
               ELSE {list[i] : i \in 1..Len(list)}

childDestroy(w, visited) ==
    [w EXCEPT
       !.resources = [r \in DOMAIN @ |->
                        IF r \in visited THEN destroyCall(@[r]) ELSE @[r]],
       !.boards = [i \in DOMAIN @ |->
                     IF (i = 1 /\ "container1" \in visited)
                          \/ (i = 2 /\ "container2" \in visited)
                     THEN QuestBoardDestroy(@[i]) ELSE @[i]]]

\* Game.shutdown(), w = [resources, ooze, boards, escKey]
shutdown(w, byIndex) ==
    LET w1 == IF hasSystems(w.resources)
              THEN [w EXCEPT !.resources = BackgroundManagerDestroy(@)]
              ELSE w
        w2 == IF hasSystems(w1.resources)
              THEN [w1 EXCEPT !.escKey = InputManagerDestroy(@)]
              ELSE w1
        w3 == IF hasSystems(w2.resources)
              THEN [w2 EXCEPT !.resources = PlayerDestroy(@)]
              ELSE w2
        w4 == IF hasObstacle(w3.resources) THEN OozeObstacleDestroy(w3) ELSE w3
    IN childDestroy(w4, eachVisits(children(w4), byIndex))

\* the engine shuts a scene down when another one is started in its place:
\* every object of its display list is destroyed
sceneShutdown(w) ==
    [w EXCEPT
       !.resources = [r \in DOMAIN @ |-> gameObjectDestroy(@[r])],
       !.boards = [i \in DOMAIN @ |-> QuestBoardDestroy(@[i])]]

\* the game objects after each step of create()
NoObjects == [r \in SceneObjects |-> "none"]
afterCreateGameSystems == [NoObjects EXCEPT !["playerSprite"] = "live"]
afterCreateGameElements ==
    [r \in SceneObjects |->
       IF r \in {"groundPlatform", "questBlocker"} THEN "none" ELSE "live"]
afterCreate == [r \in SceneObjects |-> "live"]

NoCalls == [destroy |-> [c \in Components |-> 0], returned |-> 0]

\* mutant: the previous instance is not destroyed
StartGameNoCleanup(m) ==
    [ gameInstance |-> Len(m.games) + 1,
      games |-> Append(m.games, "running") ]

\* StartGame(parent), m = [gameInstance, games]: Phaser.Game.destroy(true,
\* false) flags the game for destruction, which the engine carries out on
\* the game's next step
StartGame(m) ==
    LET cleaned == IF m.gameInstance # 0
                   THEN [m.games EXCEPT ![m.gameInstance] = "pendingDestroy"]
                   ELSE m.games
    IN [ gameInstance |-> Len(cleaned) + 1,
         games |-> Append(cleaned, "running") ]

Init ==
    /\ gameInstance = 1
    /\ games = <<"running">>
    /\ resources = afterCreate
    /\ calls = NoCalls
    /\ interactKey = [isDown |-> FALSE, justDown |-> FALSE, polled |-> FALSE]
    /\ player = NewPlayer
    /\ ooze = NewOozeObstacle.ooze
    /\ boards = NewOozeObstacle.boards
    /\ isPlayerNearOoze = FALSE
    /\ closeCallbackCalls = 0
    /\ lastCall = [op |-> "new", keys |-> {}, roundTrip |-> "fresh"]
    /\ frame = [shows |-> 0, hides |-> 0, interacts |-> 0]
    /\ scene = "Game"
    /\ escKey = [isDown |-> FALSE, listener |-> TRUE]
    /\ cameraScrollX = clampX((STARTING_X - GAME_WIDTH \div 2) * SubPx)
    /\ background = createBackground

\* one frame: Game.update, with the movement keys' isDown read as keys
UpdateWith(keys) ==
    /\ scene = "Game"
    /\ background.tilePositionX["backSky"] < MaxFrames * BACK_SKY * SubPx
    /\ \E r \in {GameUpdate(World, isPlayerNearOoze, interactKey, keys)} :
       /\ \A i \in DOMAIN r.world.boards : r.world.boards[i].fadeIns <= MaxFadeIns
       /\ background' = updateParallax(background, cameraScrollX)
       /\ player' = r.world.player
       /\ ooze' = r.world.ooze
       /\ boards' = r.world.boards
       /\ closeCallbackCalls' = r.world.calls
       /\ isPlayerNearOoze' = r.near
       /\ interactKey' = [r.key EXCEPT !.polled = r.key.isDown]
       /\ frame' = [shows |-> r.shows, hides |-> r.hides,
                    interacts |-> r.interacts]
       /\ UNCHANGED <<lastCall, scene, escKey, cameraScrollX>>
    /\ UNCHANGED lifeVars

Update == \E keys \in SUBSET GameKeys : UpdateWith(keys)

\* keyboard events of the E key (Phaser Key.onDown / onUp)
InteractKeyDown ==
    /\ scene = "Game"
    /\ ~interactKey.isDown
    /\ interactKey' = [isDown |-> TRUE, justDown |-> TRUE, polled |-> FALSE]
    /\ UNCHANGED <<player, ooze, boards, isPlayerNearOoze,
                   closeCallbackCalls, lastCall, frame, scene, escKey,
                   cameraScrollX, background>>
    /\ UNCHANGED lifeVars

InteractKeyUp ==
    /\ scene = "Game"
    /\ interactKey.isDown
    /\ interactKey' = [isDown |-> FALSE, justDown |-> FALSE, polled |-> FALSE]
    /\ UNCHANGED <<player, ooze, boards, isPlayerNearOoze,
                   closeCallbackCalls, lastCall, frame, scene, escKey,
                   cameraScrollX, background>>
    /\ UNCHANGED lifeVars

\* Player.createPlayer's delayed call
DelayedIdle ==
    /\ scene = "Game"
    /\ player.idleTimer
    /\ player' = [player EXCEPT !.anim = "idle", !.idleTimer = FALSE]
    /\ UNCHANGED <<interactKey, ooze, boards, isPlayerNearOoze,
                   closeCallbackCalls, lastCall, frame, scene, escKey,
                   cameraScrollX, background>>
    /\ UNCHANGED lifeVars

\* the engine's work between two scene updates: the arcade physics step (the
\* sprite moves the way its velocity points, gravity acts on an airborne
\* body, the ground collider stops a falling one) and the render, in which
\* the camera follows the sprite
PhysicsStep ==
    /\ scene = "Game"
    /\ \E x \in PlayerXs, y \in AirYs \cup {restY * SubPx},
          vy \in VelocityYs, down \in BOOLEAN :
         /\ (player.velocityX = 0) => (x = player.x)
         /\ (player.velocityX > 0) => (x >= player.x)
         /\ (player.velocityX < 0) => (x <= player.x)
         /\ IF player.velocityY < 0
            THEN /\ ~down
                 /\ y \in AirYs
                 /\ vy >= player.velocityY
            ELSE IF player.touchingDown
            THEN /\ down
                 /\ y = player.y
                 /\ vy = 0
            ELSE /\ vy >= player.velocityY
                 /\ IF down THEN y = restY * SubPx /\ vy = 0
                            ELSE y \in AirYs /\ vy > 0
         /\ player' = [player EXCEPT !.x = x, !.y = y, !.velocityY = vy,
                                     !.touchingDown = down]
         /\ cameraScrollX' \in CameraFollow(x)
    /\ UNCHANGED <<interactKey, ooze, boards, isPlayerNearOoze,
                   closeCallbackCalls, lastCall, frame, scene, escKey,
                   background>>
    /\ UNCHANGED lifeVars

\* pointerdown on the OK button of a panel that is on screen
ClickOK(i) ==
    /\ scene = "Game"
    /\ boards[i].containerVisible
    /\ boards[i].fadeOuts < MaxTweens
    /\ closeCallbackCalls < MaxTweens
    /\ boards' = [boards EXCEPT ![i] = hideQuestBoard(@)]
    /\ IF boards[i].onCloseCallback = "enableMovement"
       THEN /\ player' = enableMovement(player)
            /\ closeCallbackCalls' = closeCallbackCalls + 1
       ELSE UNCHANGED <<player, closeCallbackCalls>>
    /\ UNCHANGED <<interactKey, ooze, isPlayerNearOoze, lastCall, frame,
                   scene, escKey, cameraScrollX, background>>
    /\ UNCHANGED lifeVars

\* the fade-in tween of showQuestBoard reaches its end values
FadeInComplete(i) ==
    /\ scene = "Game"
    /\ boards[i].fadeIns > 0
    /\ boards' = [boards EXCEPT ![i] =
                    [@ EXCEPT !.alpha = 100, !.scale = 100, !.fadeIns = @ - 1]]
    /\ UNCHANGED <<interactKey, player, ooze, isPlayerNearOoze,
                   closeCallbackCalls, lastCall, frame, scene, escKey,
                   cameraScrollX, background>>
    /\ UNCHANGED lifeVars

\* mutant: the fade-out ends without running onComplete
FadeOutCompleteNoCallback(i) ==
    /\ scene = "Game"
    /\ boards[i].fadeOuts > 0
    /\ boards' = [boards EXCEPT ![i] =
                    [@ EXCEPT !.alpha = 0, !.scale = 80, !.fadeOuts = @ - 1]]
    /\ UNCHANGED <<interactKey, player, ooze, isPlayerNearOoze,
                   closeCallbackCalls, lastCall, frame, scene, escKey,
                   cameraScrollX, background>>
    /\ UNCHANGED lifeVars

\* a fade-out tween of hideQuestBoard reaches its end values and runs onComplete
FadeOutComplete(i) ==
    /\ scene = "Game"
    /\ boards[i].fadeOuts > 0
    /\ boards' = [boards EXCEPT ![i] =
                    [@ EXCEPT !.alpha = 0, !.scale = 80, !.fadeOuts = @ - 1,
                              !.containerVisible = FALSE, !.isVisible = FALSE]]
    /\ UNCHANGED <<interactKey, player, ooze, isPlayerNearOoze,
                   closeCallbackCalls, lastCall, frame, scene, escKey,
                   cameraScrollX, background>>
    /\ UNCHANGED lifeVars

\* mutant: the ESC handler starts no scene
onEscDownStays(current) == current

\* the 'down' handler of the ESC key: scene.start('MainMenu')
onEscDown(current) == "MainMenu"

\* keyboard events of the ESC key: the 'down' handler registered by
\* setupControls starts the MainMenu scene, which shuts the Game scene down
EscKeyDown ==
    /\ scene = "Game"
    /\ ~escKey.isDown
    /\ escKey' = [escKey EXCEPT !.isDown = TRUE]
    /\ scene' = IF escKey.listener THEN onEscDown(scene) ELSE scene
    /\ \E w \in {IF scene' = scene
                  THEN [resources |-> resources, boards |-> boards]
                  ELSE sceneShutdown([resources |-> resources,
                                      boards |-> boards])} :
         /\ resources' = w.resources
         /\ boards' = w.boards
    /\ UNCHANGED <<interactKey, player, ooze, isPlayerNearOoze,
                   closeCallbackCalls, lastCall, frame, cameraScrollX,
                   background, gameInstance, games, calls>>

\* the play button of the main menu: scene.start('Game') runs create() again
\* on the same Game scene object. create() builds new systems, a new player,
\* a new obstacle and new keys (those of the scene that was shut down are
\* gone with their tweens and timers) and assigns no other field: the field
\* initialiser of isPlayerNearOoze ran when the scene object was constructed
\* and does not run again.
startGame ==
    /\ scene = "MainMenu"
    /\ scene' = "Game"
    /\ interactKey' = [isDown |-> FALSE, justDown |-> FALSE, polled |-> FALSE]
    /\ escKey' = [isDown |-> FALSE, listener |-> TRUE]
    /\ player' = NewPlayer
    /\ ooze' = NewOozeObstacle.ooze
    /\ boards' = NewOozeObstacle.boards
    /\ cameraScrollX' = clampX((STARTING_X - GAME_WIDTH \div 2) * SubPx)
    /\ background' = createBackground
    /\ closeCallbackCalls' = 0
    /\ frame' = [shows |-> 0, hides |-> 0, interacts |-> 0]
    /\ resources' = afterCreate
    /\ calls' = [calls EXCEPT !.destroy = NoCalls.destroy]
    /\ UNCHANGED <<isPlayerNearOoze, lastCall, gameInstance, games>>

Next ==
    \/ Update
    \/ InteractKeyDown
    \/ InteractKeyUp
    \/ EscKeyDown
    \/ startGame
    \/ DelayedIdle
    \/ PhysicsStep
    \/ \E i \in DOMAIN boards : ClickOK(i)
    \/ \E i \in DOMAIN boards : FadeInComplete(i)
    \/ \E i \in DOMAIN boards : FadeOutComplete(i)

Spec == Init /\ [][Next]_vars

\* the game flow with the engine's clock running: the tween manager of an
\* active scene advances every tween on every step of the game loop, so a
\* fade-out that has been started reaches its end after its 300 ms
SpecFair ==
    Spec /\ WF_vars(\E i \in DOMAIN boards : FadeOutComplete(i))

(* ------------- the Player driven directly through its methods ---------- *)
gameVars == <<interactKey, ooze, boards, isPlayerNearOoze, closeCallbackCalls,
              frame, scene, escKey, cameraScrollX, background, lifeVars>>

\* player.update() with the movement keys' isDown read as keys
PlayerUpdateWith(keys) ==
    /\ player' = PlayerUpdate(player, keys)
    /\ lastCall' = [op |-> "update", keys |-> keys,
                    roundTrip |-> IF lastCall.roundTrip = "reenabled"
                                  THEN "resumed" ELSE lastCall.roundTrip]
    /\ UNCHANGED gameVars

PlayerUpdateCall == \E keys \in SUBSET MoveKeys : PlayerUpdateWith(keys)

DisableMovementCall ==
    /\ player' = disableMovement(player)
    /\ lastCall' = [op |-> "disableMovement", keys |-> {},
                    roundTrip |-> "disabled"]
    /\ UNCHANGED gameVars

EnableMovementCall ==
    /\ player' = enableMovement(player)
    /\ lastCall' = [op |-> "enableMovement", keys |-> {},
                    roundTrip |-> IF lastCall.roundTrip = "disabled"
                                  THEN "reenabled" ELSE lastCall.roundTrip]
    /\ UNCHANGED gameVars

NextPlayer ==
    \/ PlayerUpdateCall
    \/ DisableMovementCall
    \/ EnableMovementCall
    \/ PhysicsStep
    \/ DelayedIdle

SpecPlayer == Init /\ [][NextPlayer]_vars

(* ------ the game with InputManager.destroy() callable by its owner ------ *)
EscKeyUp ==
    /\ scene = "Game"
    /\ escKey.isDown
    /\ escKey' = [escKey EXCEPT !.isDown = FALSE]
    /\ UNCHANGED <<interactKey, player, ooze, boards, isPlayerNearOoze,
                   closeCallbackCalls, lastCall, frame, scene, cameraScrollX,
                   background>>
    /\ UNCHANGED lifeVars

\* inputManager.destroy(): escKey.off('down') removes the handler
InputManagerDestroyCall ==
    /\ scene = "Game"
    /\ escKey' = [escKey EXCEPT !.listener = FALSE]
    /\ UNCHANGED <<interactKey, player, ooze, boards, isPlayerNearOoze,
                   closeCallbackCalls, lastCall, frame, scene, cameraScrollX,
                   background>>
    /\ UNCHANGED lifeVars

NextInput ==
    \/ Next
    \/ EscKeyUp
    \/ InputManagerDestroyCall

SpecInput == Init /\ [][NextInput]_vars

(* ------- queries and the BackgroundManager called with chosen inputs ---- *)
\* offsets from the obstacle's anchor, in pixels: around the radius on both
\* sides, and the legs of a right triangle whose hypotenuse is the radius
ProbeOffsets ==
    { 0 - (INTERACTION_DISTANCE + 1), 0 - INTERACTION_DISTANCE,
      0 - (INTERACTION_DISTANCE - 1), INTERACTION_DISTANCE - 1,
      INTERACTION_DISTANCE, INTERACTION_DISTANCE + 1,
      0 - (INTERACTION_DISTANCE * 4) \div 5, 0 - (INTERACTION_DISTANCE * 3) \div 5,
      0, (INTERACTION_DISTANCE * 3) \div 5, (INTERACTION_DISTANCE * 4) \div 5 }

\* the same in sub-pixel units, with the nearest sub-pixel neighbours inside
\* the radius
ProbeDeltas ==
    { d * SubPx : d \in ProbeOffsets }
      \cup { 1 - INTERACTION_DISTANCE * SubPx, INTERACTION_DISTANCE * SubPx - 1 }

\* camera scroll values: the start, around 0, and 100 pixels
CameraScrollXs ==
    { clampX((STARTING_X - GAME_WIDTH \div 2) * SubPx), 0 - 1, 0, 1,
      100 * SubPx }

unitVars == <<interactKey, player, ooze, boards, isPlayerNearOoze,
              closeCallbackCalls, frame, scene, escKey, lifeVars>>

isPlayerNearbyQuery ==
    /\ \E dx \in ProbeDeltas, dy \in ProbeDeltas :
         LET pos == [x |-> OOZE_X_POSITION * SubPx + dx,
                     y |-> oozeY * SubPx + dy]
         IN lastCall' = [op |-> "isPlayerNearby", keys |-> {},
                         roundTrip |-> lastCall.roundTrip,
                         arg |-> pos, result |-> isPlayerNearby(pos)]
    /\ UNCHANGED <<unitVars, cameraScrollX, background>>

getHorizontalDirectionQuery ==
    /\ \E keys \in SUBSET MoveKeys :
         lastCall' = [op |-> "getHorizontalDirection", keys |-> keys,
                      roundTrip |-> lastCall.roundTrip,
                      result |-> getHorizontalDirection(keys)]
    /\ UNCHANGED <<unitVars, cameraScrollX, background>>

\* the camera is scrolled to a chosen position
CameraMove ==
    /\ \E sx \in CameraScrollXs : cameraScrollX' = sx
    /\ lastCall' = [op |-> "cameraMove", keys |-> {},
                    roundTrip |-> lastCall.roundTrip]
    /\ UNCHANGED <<unitVars, background>>

UpdateParallaxCall ==
    /\ background.tilePositionX["backSky"] < MaxFrames * BACK_SKY * SubPx
    /\ background' = updateParallax(background, cameraScrollX)
    /\ lastCall' = [op |-> "updateParallax", keys |-> {},
                    roundTrip |-> lastCall.roundTrip]
    /\ UNCHANGED <<unitVars, cameraScrollX>>

NextUnits ==
    \/ isPlayerNearbyQuery
    \/ getHorizontalDirectionQuery
    \/ CameraMove
    \/ UpdateParallaxCall

SpecUnits == Init /\ [][NextUnits]_vars

(* ---- the teardown methods and StartGame called by the scene's owner ---- *)
\* the Game scene object when create() has run up to a step: 0 not started,
\* 1 createGameSystems, 2 createGameElements, 3 create() complete, 4 the
\* first interaction has taken place
ooze4 == onPlayerInteract([player |-> NewPlayer, ooze |-> NewOozeObstacle.ooze,
                           boards |-> NewOozeObstacle.boards, calls |-> 0])

SceneAt(stage) ==
    [ resources |-> CASE stage = 0 -> NoObjects
                      [] stage = 1 -> afterCreateGameSystems
                      [] stage = 2 -> afterCreateGameElements
                      [] OTHER -> afterCreate,
      ooze |-> IF stage = 4 THEN ooze4.ooze ELSE NewOozeObstacle.ooze,
      boards |-> IF stage = 4 THEN ooze4.boards
                 ELSE IF stage >= 2 THEN NewOozeObstacle.boards ELSE << >>,
      player |-> IF stage = 4 THEN ooze4.player ELSE NewPlayer,
      escKey |-> [isDown |-> FALSE, listener |-> stage >= 1] ]

InitLifecycle ==
    /\ \/ gameInstance = 0 /\ games = << >>
       \/ gameInstance = 1 /\ games = <<"running">>
    /\ \E stage \in 0..4 :
         /\ (gameInstance = 0) => (stage = 0)
         /\ resources = SceneAt(stage).resources
         /\ ooze = SceneAt(stage).ooze
         /\ boards = SceneAt(stage).boards
         /\ player = SceneAt(stage).player
         /\ escKey = SceneAt(stage).escKey
    /\ calls = NoCalls
    /\ interactKey = [isDown |-> FALSE, justDown |-> FALSE, polled |-> FALSE]
    /\ isPlayerNearOoze = FALSE
    /\ closeCallbackCalls = 0
    /\ lastCall = [op |-> "new", keys |-> {}, roundTrip |-> "fresh"]
    /\ frame = [shows |-> 0, hides |-> 0, interacts |-> 0]
    /\ scene = "Game"
    /\ cameraScrollX = clampX((STARTING_X - GAME_WIDTH \div 2) * SubPx)
    /\ background = createBackground

sceneVars == <<interactKey, player, ooze, isPlayerNearOoze, closeCallbackCalls,
               lastCall, frame, scene, cameraScrollX, background>>

Called(c) ==
    /\ gameInstance # 0
    /\ calls.destroy[c] < MaxDestroys
    /\ calls' = [calls EXCEPT !.destroy[c] = @ + 1]

BackgroundManagerDestroyCall ==
    /\ hasSystems(resources)
    /\ Called("BackgroundManager")
    /\ resources' = BackgroundManagerDestroy(resources)
    /\ UNCHANGED <<sceneVars, boards, escKey, gameInstance, games>>

InputManagerDestroyAgainCall ==
    /\ hasSystems(resources)
    /\ Called("InputManager")
    /\ escKey' = InputManagerDestroy(escKey)
    /\ UNCHANGED <<sceneVars, boards, resources, gameInstance, games>>

PlayerDestroyCall ==
    /\ hasSystems(resources)
    /\ Called("Player")
    /\ resources' = PlayerDestroy(resources)
    /\ UNCHANGED <<sceneVars, boards, escKey, gameInstance, games>>

\* destroy() of the panel the obstacle references (no reference to any
\* other panel exists)
QuestBoardDestroyCall ==
    /\ ooze.questBoard # 0
    /\ Called("QuestBoard")
    /\ boards' = [boards EXCEPT ![ooze.questBoard] = QuestBoardDestroy(@)]
    /\ UNCHANGED <<sceneVars, resources, escKey, gameInstance, games>>

OozeObstacleDestroyCall ==
    /\ hasObstacle(resources)
    /\ Called("OozeObstacle")
    /\ \E w \in {OozeObstacleDestroy([resources |-> resources, ooze |-> ooze,
                                       boards |-> boards, escKey |-> escKey])} :
         /\ resources' = w.resources
         /\ boards' = w.boards
    /\ UNCHANGED <<sceneVars, escKey, gameInstance, games>>

\* Game.shutdown() called on the scene; which way the engine's display list
\* iterates is not fixed by the program
ShutdownCall ==
    /\ Called("Game")
    /\ \E byIndex \in BOOLEAN :
       \E w \in {shutdown([resources |-> resources, ooze |-> ooze,
                           boards |-> boards, escKey |-> escKey], byIndex)} :
         /\ resources' = w.resources
         /\ boards' = w.boards
         /\ escKey' = w.escKey
    /\ UNCHANGED <<sceneVars, gameInstance, games>>

\* StartGame(parent): the new game has constructed its scenes, and the Game
\* scene's create() has not run
StartGameCall ==
    /\ Len(games) < MaxGames
    /\ \E m \in {StartGame([gameInstance |-> gameInstance, games |-> games])} :
         /\ gameInstance' = m.gameInstance
         /\ games' = m.games
         /\ calls' = [destroy |-> NoCalls.destroy, returned |-> m.gameInstance]
    /\ resources' = SceneAt(0).resources
    /\ ooze' = SceneAt(0).ooze
    /\ boards' = SceneAt(0).boards
    /\ player' = SceneAt(0).player
    /\ escKey' = SceneAt(0).escKey
    /\ UNCHANGED <<interactKey, isPlayerNearOoze, closeCallbackCalls, lastCall,
                   frame, scene, cameraScrollX, background>>

\* the next step of a game flagged for destruction: Phaser.Game.runDestroy
RunDestroy(id) ==
    /\ games[id] = "pendingDestroy"
    /\ games' = [games EXCEPT ![id] = "destroyed"]
    /\ UNCHANGED <<sceneVars, boards, escKey, resources, calls, gameInstance>>

NextLifecycle ==
    \/ BackgroundManagerDestroyCall
    \/ InputManagerDestroyAgainCall
    \/ PlayerDestroyCall
    \/ OozeObstacleDestroyCall
    \/ QuestBoardDestroyCall
    \/ ShutdownCall
    \/ StartGameCall
    \/ \E id \in DOMAIN games : RunDestroy(id)

SpecLifecycle == InitLifecycle /\ [][NextLifecycle]_vars

(* ------------------------------ properties ---------------------------- *)
\* some panel is open (QuestBoard.isVisible, which stays true during the
\* fade-out)
PanelOpen == \E i \in DOMAIN boards : boards[i].isVisible

\* the panel the obstacle references is open and on screen
OozePanelShown ==
    /\ ooze.questBoard # 0
    /\ boards[ooze.questBoard].isVisible
    /\ boards[ooze.questBoard].containerVisible

\* the close callback is invoked in this step
CallbackInvoked == closeCallbackCalls' = closeCallbackCalls + 1

\* the position checkObstacleInteractions reads in the frame that ends in
\* the primed state is within the radius
NearInFrame == isPlayerNearby(getPosition(player'))

\* C1: at most one panel is open, and while a panel is open (isVisible,
\* fade-out included) the player's canMove is false.
C1_OnePanelOpenFreezesPlayer ==
    /\ Cardinality({i \in DOMAIN boards : boards[i].isVisible}) <= 1
    /\ PanelOpen => ~player.canMove

\* C2: the close callback is invoked at most once per open/close cycle, only
\* in a step that leaves the panel invisible after its fade-out, and never in
\* the step that requests the close (the step that starts the fade-out).
C2_CallbackOnceAfterFadeOut ==
    [][CallbackInvoked =>
         /\ closeCallbackCalls' = 1
         /\ ~PanelOpen'
         /\ \A i \in DOMAIN boards : boards'[i].fadeOuts <= boards[i].fadeOuts
      ]_vars

\* C3: at the end of every frame in which no panel is open, the affordance
\* flag is set exactly when the player is strictly within the radius.
C3_AffordanceIffNear ==
    [][(~PanelOpen' /\ Update) =>
         (ooze'.chatBubbleVisible <=> NearInFrame)
      ]_vars

\* C4: a frame in which the player is within the radius and the interact key
\* was just pressed ends with movement disabled, the panel open and on
\* screen, and the chat bubble (flag, image and text) hidden.
C4_InteractOpensPanel ==
    [][(interactKey.justDown /\ NearInFrame /\ Update) =>
            /\ ~player'.canMove
            /\ OozePanelShown'
            /\ ~ooze'.chatBubbleVisible
            /\ ~ooze'.chatBubbleImage
            /\ ~ooze'.chatBubbleText
      ]_vars

\* C4 witness: the state right after such a frame (panel just opened, its
\* fade-in still running, the key press consumed).
C4_Witness ==
    /\ isPlayerNearOoze
    /\ interactKey.isDown /\ ~interactKey.justDown
    /\ ~player.canMove
    /\ OozePanelShown
    /\ boards[ooze.questBoard].alpha = 0
    /\ boards[ooze.questBoard].fadeIns = 1
    /\ closeCallbackCalls = 0

\* C5: the close callback re-enables movement, and in a frame after it has
\* fired (no new interaction) a player still within the radius has the
\* affordance visible again.
C5_CloseReturnsToNearby ==
    [][/\ CallbackInvoked => player'.canMove
       /\ (/\ closeCallbackCalls >= 1
           /\ player.canMove
           /\ ~interactKey.justDown
           /\ NearInFrame
           /\ Update) => ooze'.chatBubbleVisible
      ]_vars

\* C6: within a scene (the player object is not replaced by a new create()),
\* canMove goes from false to true only in a step that invokes the close
\* callback registered at open.
C6_OnlyCloseCallbackEnables ==
    [][(scene' = scene /\ ~player.canMove /\ player'.canMove) =>
         /\ CallbackInvoked
         /\ \E i \in DOMAIN boards :
              /\ boards[i].containerVisible
              /\ boards[i].onCloseCallback = "enableMovement"
      ]_vars

\* C6 witness: movement has been re-enabled by the callback of the current
\* open cycle.
C6_Witness ==
    /\ closeCallbackCalls >= 1
    /\ player.canMove
    /\ player.velocityX # 0

\* C7: an interaction (showQuestBoard call) on a panel that is already open
\* leaves every panel field unchanged: isVisible, the stored callback, alpha,
\* scale and the tweens in flight.
C7_OpenTwiceIsNoOp ==
    [][(/\ interactKey.justDown
        /\ ooze.questBoard # 0
        /\ boards[ooze.questBoard].isVisible
        /\ NearInFrame
        /\ Update) => boards' = boards
      ]_vars

\* C7 witness: the callback of the current open cycle has fired, and an
\* interaction has since frozen the player again while the panel was still
\* open, so showQuestBoard was called on an open panel.
C7_Witness ==
    /\ OozePanelShown
    /\ closeCallbackCalls >= 1
    /\ ~player.canMove

\* the speed update() selects for the keys held
SelectedSpeed(keys) == IF isRunning(keys) THEN RUN_SPEED ELSE WALK_SPEED

\* C8: while canMove is false, update() leaves the horizontal velocity at 0
\* for every combination of keys and does not write the vertical velocity of
\* an airborne player.
C8_FrozenUpdateKeepsStill ==
    [][\A keys \in SUBSET MoveKeys :
         (~player.canMove /\ PlayerUpdateWith(keys)) =>
            /\ player'.velocityX = 0
            /\ ~player.touchingDown => player'.velocityY = player.velocityY
      ]_vars

\* C8 witness: update() has run on a frozen, airborne, falling player with a
\* direction, run and jump held.
C8_Witness ==
    /\ lastCall.op = "update"
    /\ {"right", "shift", "space"} \subseteq lastCall.keys
    /\ ~player.canMove
    /\ ~player.touchingDown
    /\ player.velocityY = GRAVITY_Y
    /\ player.velocityX = 0

\* C9 as claimed: while canMove is false, update() on a grounded player with
\* the jump input held sets the vertical velocity to the jump constant.
C9_FrozenPlayerStillJumps ==
    [][\A keys \in SUBSET MoveKeys :
         (/\ ~player.canMove
          /\ player.touchingDown
          /\ isJumping(keys)
          /\ PlayerUpdateWith(keys)) => player'.velocityY = JUMP_VELOCITY
      ]_vars

\* C9 amended: while canMove is false, update() on a grounded player with the
\* jump input held starts no jump: the vertical velocity and the animation
\* are left as they were.
C9_FrozenPlayerDoesNotJump ==
    [][\A keys \in SUBSET MoveKeys :
         (/\ ~player.canMove
          /\ player.touchingDown
          /\ isJumping(keys)
          /\ PlayerUpdateWith(keys)) =>
            /\ player'.velocityY = player.velocityY
            /\ player'.anim = player.anim
      ]_vars

\* C9 witness: update() has run with jump held on a frozen player standing on
\* the ground, which is still at rest.
C9_Witness ==
    /\ lastCall.op = "update"
    /\ isJumping(lastCall.keys)
    /\ ~player.canMove
    /\ player.touchingDown
    /\ player.velocityY = 0
    /\ player.anim = "idle"

\* C10: the first update() after disableMovement() followed by
\* enableMovement() sets the horizontal velocity to direction x (run or walk
\* speed) for every combination of keys.
C10_EnableRestoresControl ==
    [][\A keys \in SUBSET MoveKeys :
         (lastCall.roundTrip = "reenabled" /\ PlayerUpdateWith(keys)) =>
            player'.velocityX = getHorizontalDirection(keys) * SelectedSpeed(keys)
      ]_vars

\* C10 witness: after a disable/enable round trip, update() has run with
\* left, right and run held and the player moves left at run speed.
C10_Witness ==
    /\ lastCall.roundTrip = "resumed"
    /\ lastCall.op = "update"
    /\ {"left", "right", "shift"} \subseteq lastCall.keys
    /\ player.canMove
    /\ player.velocityX = -RUN_SPEED

\* the step is a frame of the Game scene (every frame advances the drift of
\* the back-most layer)
FrameStep ==
    /\ scene = "Game"
    /\ lastCall' = lastCall
    /\ background'.tilePositionX["backSky"]
          = background.tilePositionX["backSky"] + BACK_SKY * SubPx

\* the chat bubble as the obstacle holds it
Bubble(o) == <<o.chatBubbleVisible, o.chatBubbleImage, o.chatBubbleText>>

\* C11: the proximity check calls showChatBubble exactly in the frame in
\* which the proximity boolean goes from false to true and hideChatBubble
\* exactly in the frame in which it goes from true to false, once each; in a
\* frame without a crossing and without an interaction the bubble is not
\* touched.
C11_BubbleCallsOncePerCrossing ==
    [][FrameStep =>
         /\ frame'.shows = IF ~isPlayerNearOoze /\ isPlayerNearOoze' THEN 1 ELSE 0
         /\ frame'.hides = IF isPlayerNearOoze /\ ~isPlayerNearOoze' THEN 1 ELSE 0
         /\ (isPlayerNearOoze' = isPlayerNearOoze /\ frame'.interacts = 0)
              => Bubble(ooze') = Bubble(ooze)
      ]_vars

\* C11 witness: the third frame ended with the player still inside the
\* radius and made no show or hide call, the bubble being visible from the
\* one show call of the frame in which the player entered.
C11_Witness ==
    /\ scene = "Game"
    /\ isPlayerNearOoze
    /\ frame = [shows |-> 0, hides |-> 0, interacts |-> 0]
    /\ ooze.chatBubbleVisible
    /\ background.tilePositionX["backSky"] = 3 * BACK_SKY * SubPx

\* offsets of the position last passed to isPlayerNearby from the anchor
ProbeDx == lastCall.arg.x - OOZE_X_POSITION * SubPx
ProbeDy == lastCall.arg.y - oozeY * SubPx
Abs(n) == IF n < 0 THEN 0 - n ELSE n

\* C12: isPlayerNearby(p) is true exactly when the Euclidean distance from p
\* to the anchor is strictly less than the radius: on either axis through
\* the anchor, exactly when the offset is less than the radius (true at
\* radius - 1, false at the radius and at radius + 1, on both sides); at a
\* point whose offsets are the legs of a right triangle with the radius as
\* hypotenuse, false; and in general exactly when the squared distance is
\* less than the squared radius.
C12_NearbyIsStrictEuclidean ==
    lastCall.op = "isPlayerNearby" =>
       LET r == INTERACTION_DISTANCE * SubPx
           a == ((INTERACTION_DISTANCE * 3) \div 5) * SubPx
           b == ((INTERACTION_DISTANCE * 4) \div 5) * SubPx
       IN /\ ProbeDy = 0 => (lastCall.result <=> Abs(ProbeDx) < r)
          /\ ProbeDx = 0 => (lastCall.result <=> Abs(ProbeDy) < r)
          /\ (Abs(ProbeDx) = a /\ Abs(ProbeDy) = b) => ~lastCall.result
          /\ (Abs(ProbeDx) = b /\ Abs(ProbeDy) = b) => ~lastCall.result
          /\ (Abs(ProbeDx) = a /\ Abs(ProbeDy) = a) => lastCall.result
          /\ lastCall.result <=> (ProbeDx * ProbeDx + ProbeDy * ProbeDy < r * r)

\* C12 witness: the query at radius - 1 to the right of the anchor, same y,
\* has answered true.
C12_Witness ==
    /\ lastCall.op = "isPlayerNearby"
    /\ ProbeDx = (INTERACTION_DISTANCE - 1) * SubPx
    /\ ProbeDy = 0
    /\ lastCall.result

\* C13: onPlayerInteract is called only in a frame before which no other
\* frame has run since the interact key went down (the frame of the press),
\* and after it the press is consumed, so it triggers at most once.
C13_InteractOnlyOnPressFrame ==
    [][(FrameStep /\ frame'.interacts = 1) =>
         /\ interactKey.isDown
         /\ ~interactKey.polled
         /\ ~interactKey'.justDown
      ]_vars

\* C14: getHorizontalDirection is -1 whenever left is held (right held or
\* not), 1 when only right is held, 0 when neither is held.
C14_DirectionLeftPriority ==
    lastCall.op = "getHorizontalDirection" =>
       /\ lastCall.result \in {0 - 1, 0, 1}
       /\ "left" \in lastCall.keys => lastCall.result = 0 - 1
       /\ ("right" \in lastCall.keys /\ "left" \notin lastCall.keys)
            => lastCall.result = 1
       /\ ("right" \notin lastCall.keys /\ "left" \notin lastCall.keys)
            => lastCall.result = 0

\* C14 witness: the query with left and right both held has answered -1.
C14_Witness ==
    /\ lastCall.op = "getHorizontalDirection"
    /\ {"left", "right"} \subseteq lastCall.keys
    /\ lastCall.result = 0 - 1

\* C15: with movement enabled, update() ends with the horizontal velocity
\* direction x RUN_SPEED when the run modifier is held and direction x
\* WALK_SPEED otherwise, grounded or airborne, which is one of 0, +-WALK_SPEED,
\* +-RUN_SPEED.
C15_VelocityFollowsInput ==
    [][\A keys \in {lastCall'.keys} :
         (player.canMove /\ lastCall'.op = "update" /\ PlayerUpdateWith(keys)) =>
            /\ player'.velocityX
                 = getHorizontalDirection(keys)
                     * (IF "shift" \in keys THEN RUN_SPEED ELSE WALK_SPEED)
            /\ player'.velocityX
                 \in {0, WALK_SPEED, 0 - WALK_SPEED, RUN_SPEED, 0 - RUN_SPEED}
      ]_vars

\* C15 witness: update() has run on an airborne player with movement
\* enabled and left and run held, and the player moves left at run speed.
C15_Witness ==
    /\ lastCall.op = "update"
    /\ {"left", "shift"} \subseteq lastCall.keys
    /\ player.canMove
    /\ ~player.touchingDown
    /\ player.velocityX = 0 - RUN_SPEED

\* C16: with movement enabled, update() sets the vertical velocity to the
\* jump constant when the player is grounded and space or up is held (in
\* every such frame), and otherwise leaves the vertical velocity as it was,
\* in particular whenever the player is airborne.
C16_JumpOnlyFromGround ==
    [][\A keys \in {lastCall'.keys} :
         (player.canMove /\ lastCall'.op = "update" /\ PlayerUpdateWith(keys)) =>
            IF player.touchingDown /\ ("space" \in keys \/ "up" \in keys)
            THEN player'.velocityY = JUMP_VELOCITY
            ELSE player'.velocityY = player.velocityY
      ]_vars

\* C16 witness: update() has run with jump held on an airborne, falling
\* player with movement enabled, and the player is still falling.
C16_Witness ==
    /\ lastCall.op = "update"
    /\ "space" \in lastCall.keys
    /\ player.canMove
    /\ ~player.touchingDown
    /\ player.velocityY = GRAVITY_Y

\* C17: right after updateParallax every camera-driven layer's texture
\* offset is the camera scroll times the layer's speed, whatever the offsets
\* were before; with the camera at 100 pixels the layer of speed 0.3 is at
\* 30 pixels.
C17_OffsetIsScrollTimesSpeed ==
    lastCall.op = "updateParallax" =>
       /\ \A l \in CameraLayers :
            background.tilePositionX[l] = cameraScrollX * ScrollSpeed(l)
       /\ cameraScrollX = 100 * SubPx =>
            background.tilePositionX["foregroundRocks"] = 30 * SpeedUnit * SubPx

\* C17 witness: updateParallax has run a second time or later, with the
\* camera at 100 pixels, and the layer of speed 0.3 is at 30 pixels.
C17_Witness ==
    /\ lastCall.op = "updateParallax"
    /\ cameraScrollX = 100 * SubPx
    /\ background.tilePositionX["backSky"] >= 2 * BACK_SKY * SubPx
    /\ background.tilePositionX["foregroundRocks"] = 30 * SpeedUnit * SubPx
    /\ FOREGROUND_ROCKS * 10 = 3 * SpeedUnit

\* C18: every updateParallax call adds the drift constant to the back-most
\* layer's offset, whatever the camera scroll is, and no step moves the
\* planet image.
C18_DriftLayerAndStaticPlanet ==
    [][/\ UpdateParallaxCall =>
            background'.tilePositionX["backSky"]
               = background.tilePositionX["backSky"] + BACK_SKY * SubPx
       /\ background'.planet = background.planet
      ]_vars

\* C18 witness: after three updateParallax calls with the camera away from
\* its start the back-most layer has drifted by three times its constant.
C18_Witness ==
    /\ lastCall.op = "updateParallax"
    /\ cameraScrollX = 100 * SubPx
    /\ background.tilePositionX["backSky"] = 3 * BACK_SKY * SubPx
    /\ background.tilePositionX["skyGlow"] = 100 * SubPx * SKY_GLOW
    /\ background.planet = createBackground.planet

\* the tiling layers in the order createBackground added them, back to front
TileLayers == SelectSeq(background.displayList, LAMBDA l : l # "planet")

\* C19: in back-to-front creation order the scroll speeds of the tiling
\* layers never decrease, and the front-most layer is the ground layer with
\* speed exactly 1.0.
C19_SpeedsNeverDecreaseFrontward ==
    /\ \A i, j \in DOMAIN TileLayers :
          i < j => ScrollSpeed(TileLayers[i]) <= ScrollSpeed(TileLayers[j])
    /\ TileLayers[Len(TileLayers)] = "groundLayer"
    /\ GROUND_LAYER = SpeedUnit

\* C20: while the Game scene is active and the 'down' handler is bound, the
\* ESC key going down starts the MainMenu scene, whatever state the game is
\* in; only InputManager.destroy removes the handler, and once it is removed
\* the ESC key going down leaves the scene as it is.
C20_EscReturnsToMenu ==
    [][/\ (scene = "Game" /\ ~escKey.isDown /\ escKey'.isDown) =>
            IF escKey.listener THEN scene' = "MainMenu" ELSE scene' = scene
       /\ (escKey.listener /\ ~escKey'.listener) => InputManagerDestroyCall
       /\ escKey'.listener => escKey.listener
      ]_vars

\* C20 witness: the menu was entered by ESC while the panel was open and the
\* player's movement disabled.
C20_Witness ==
    /\ scene = "MainMenu"
    /\ escKey.isDown
    /\ OozePanelShown
    /\ ~player.canMove

\* C24: the proximity check of a frame reads the position the same frame's
\* Player update has produced (the rounded one), after the parallax update
\* has read the camera: the frame ends with the player on whole pixels, the
\* proximity flag equal to the proximity of that position, and the layers at
\* the offsets of the camera scroll the frame started with.
C24_CheckUsesUpdatedPosition ==
    [][FrameStep =>
         /\ player'.x = MathRound(player.x)
         /\ player'.y = MathRound(player.y)
         /\ isPlayerNearOoze' = isPlayerNearby(getPosition(player'))
         /\ frame'.interacts = 1 => isPlayerNearby(getPosition(player'))
         /\ background' = updateParallax(background, cameraScrollX)
      ]_vars

\* C24 witness: the physics step had left the sprite a fraction of a pixel
\* inside the radius (the camera still shows that position); the frame's
\* Player update has rounded it onto the radius, and the same frame's
\* proximity check has found the player not near.
C24_Witness ==
    /\ scene = "Game"
    /\ cameraScrollX
         = (OOZE_X_POSITION - INTERACTION_DISTANCE - GAME_WIDTH \div 2) * SubPx + 1
    /\ player.x = (OOZE_X_POSITION - INTERACTION_DISTANCE) * SubPx
    /\ isPlayerNearby([x |-> player.x + 1, y |-> player.y])
    /\ ~isPlayerNearOoze
    /\ background.tilePositionX["groundLayer"] = cameraScrollX * GROUND_LAYER

\* C25: after update() with movement enabled, a grounded player's animation
\* is jump when space or up is held, otherwise run when the direction is not
\* 0, otherwise idle; an airborne player's animation is left as it was.
C25_AnimationOnlyOnGround ==
    [][\A keys \in {lastCall'.keys} :
         (player.canMove /\ lastCall'.op = "update" /\ PlayerUpdateWith(keys)) =>
            player'.anim =
               IF ~player.touchingDown THEN player.anim
               ELSE IF "space" \in keys \/ "up" \in keys THEN "jump"
               ELSE IF "left" \in keys \/ "right" \in keys THEN "run"
               ELSE "idle"
      ]_vars

\* C25 witness: update() has run with a direction held on an airborne player
\* with movement enabled, which still shows the jump animation.
C25_Witness ==
    /\ lastCall.op = "update"
    /\ "right" \in lastCall.keys
    /\ "space" \notin lastCall.keys /\ "up" \notin lastCall.keys
    /\ player.canMove
    /\ ~player.touchingDown
    /\ player.velocityX = WALK_SPEED
    /\ player.anim = "jump"

\* C27: whenever the player's movement is disabled, the obstacle's panel is
\* open and on screen (so its OK button can be clicked); this holds between
\* any two steps, hence at the end of every frame.
C27_FrozenOnlyWhilePanelShown ==
    (scene = "Game" /\ ~player.canMove) => OozePanelShown

\* C28: the chatBubbleVisible flag equals the visibility of the bubble image
\* and of the bubble text, from construction on.
C28_BubbleFlagMatchesObjects ==
    /\ ooze.chatBubbleImage = ooze.chatBubbleVisible
    /\ ooze.chatBubbleText = ooze.chatBubbleVisible

C30_CreateResetsInteractionState ==
    [][(scene = "MainMenu" /\ scene' = "Game") =>
         /\ ~isPlayerNearOoze'
         /\ ~ooze'.chatBubbleVisible
         /\ player'.canMove
         /\ \A i \in DOMAIN boards' : ~boards'[i].isVisible
      ]_vars

\* the panels one obstacle can own
BoardIds == 1..2

C21_AtMostOneLiveGame ==
    /\ Cardinality({i \in DOMAIN games : games[i] # "destroyed"}) <= 1
    /\ calls.returned # 0 => calls.returned = gameInstance

\* C21 amended: at most one game instance is neither destroyed nor flagged
\* for destruction, it is the one gameInstance references and the last
\* StartGame call returned, and every earlier instance is flagged for
\* destruction or destroyed.
C21_AtMostOneCurrentGame ==
    /\ \A i \in DOMAIN games :
         IF i = gameInstance THEN games[i] = "running"
                             ELSE games[i] \in {"pendingDestroy", "destroyed"}
    /\ gameInstance = Len(games)
    /\ calls.returned # 0 => calls.returned = gameInstance

\* C21 witness: StartGame has been called three times; the first instance is
\* destroyed, the second is still waiting for its next step.
C21_Witness ==
    /\ Len(games) = 3
    /\ games[1] = "destroyed"
    /\ games[2] = "pendingDestroy"
    /\ calls.returned = 3

\* C22: no panel exists before the first interaction, at most one panel is
\* ever constructed for the obstacle, and once OozeObstacle.destroy() has
\* been called every panel constructed for the obstacle is destroyed.
C22_OnePanelBuiltLazilyAndDestroyed ==
    /\ ooze.questBoard = 0 => boards = << >>
    /\ Len(boards) <= 1
    /\ calls.destroy["OozeObstacle"] >= 1 =>
          \A i \in DOMAIN boards : boards[i].destroyed

\* C26: no teardown call throws, and a second call of a component's
\* destroy() or of Game.shutdown() changes nothing: what is destroyed stays
\* destroyed and nothing else is torn down.
C26_TeardownIsDefensive ==
    [][(gameInstance' = gameInstance) =>
         /\ \A r \in SceneObjects : resources'[r] # "TypeError"
         /\ \A r \in SceneObjects :
               resources[r] = "destroyed" => resources'[r] = "destroyed"
         /\ \A c \in Components :
               (calls.destroy[c] >= 1 /\ calls'.destroy[c] = calls.destroy[c] + 1)
                  => UNCHANGED <<resources, boards, escKey>>
      ]_vars

====
